---- MODULE Spec2Model ----
(***************************************************************************)
(* A model of the CRSF receiver decoder crsf_reader.py: the CRC-8 engine,  *)
(* the tick conversions, the 11-bit channel unpacker, the frame reader     *)
(* read_frame() over a UART byte source with a read timeout, and the main  *)
(* loop with its rate-limited report; and of the throttle ramp script      *)
(* ESC_Speed_Ramp_wSafety.py with its polled safety interlock.             *)
(*                                                                         *)
(* Bytes are the integers 0..255.  A float of ticks_to_unit is k/500 for   *)
(* an integer k, and is carried as the integer k (UnitDen = 500); a        *)
(* printed value round(x, 3) is carried in thousandths.                    *)
(***************************************************************************)
EXTENDS Integers, Sequences, FiniteSets, TLC

VARIABLES
    segs,        \* how the stream was put together: its segments, in order
    stream,      \* every byte the transmitter puts on the wire, in order
    pos,         \* how many bytes of stream the UART reads have consumed
    pc,          \* where the program is: "hunt", "len", "body", "loop"
    length,      \* read_frame's local `length` while the body is awaited
    rest,        \* read_frame's local `rest` of the last full body read
    f,           \* what the last read_frame call returned (None or a pair)
    emptyReads,  \* reads of the current read_frame call that returned nothing
    returned,    \* the frames read_frame has returned so far, in order
    frameStall,  \* has a read of a length byte or of a body come back short
    shortRead,   \* has any read delivered fewer bytes than it asked for
    noneReturned,\* has any read_frame call returned None
    ch_ticks,    \* the main loop's ch_ticks (<<>> before the first unpack)
    last_print,  \* the main loop's last_print, a ticks_ms value
    clock,       \* milliseconds since an epoch, not wrapped
    last_clock,  \* clock at the last print (at start-up before any)
    printed,     \* the last line printed, <<line>> (None before any)
    nprinted,    \* how many lines have been printed
    decoded,     \* did the last loop iteration unpack a Channel Set
    didPrint,    \* did the last loop iteration print
    gap,         \* clock - last_clock as the last decoded frame's test saw it
    fin,         \* the input of the pure function under check
    fout,        \* its result, <<result>> (None before it is applied)
    rpc,         \* where the ramp script is
    pct,         \* the ramp's loop variable pct (Unset before the loop)
    deadline,    \* t0 of require_safety_stable, end_ms of hold_with_safety
    uclock,      \* the ramp's milliseconds since an epoch, not wrapped
    line,        \* the level of the interlock input GP16: 0 or 1
    cmds,        \* the set_percent calls made so far, in order
    cmdAt,       \* uclock at the last set_percent call (at launch before any)
    held,        \* at the last set_percent call, the time since the one before
    tripped,     \* has a poll of require_safety_stable or hold_with_safety failed
    waits        \* sleeps made by kill_and_wait

readerVars == <<pos, length, rest, f, emptyReads, returned, frameStall,
               shortRead, noneReturned>>

loopVars == <<ch_ticks, last_print, clock, last_clock, printed, nprinted,
              decoded, didPrint, gap>>

decoderVars == <<segs, stream, pc, readerVars, loopVars>>

rampVars == <<rpc, pct, deadline, uclock, line, cmds, cmdAt, held, tripped, waits>>

vars == <<decoderVars, fin, fout, rampVars>>

\* Python's None, and a result that is absent: the empty tuple
None == <<>>

\* read_frame's `length` before a length byte has been read
Unset == -1

(***************************************************************************)
(* Program constants                                                       *)
(***************************************************************************)
CRSF_SYNC == 200
TYPE_RC_CHANNELS == 22
MAX_FRAME == 64
CrcPoly == 213
NeutralTick == 992
NumChannels == 16
ChannelBits == 11
ChannelPayloadLen == 22
PrintPeriod == 50
UnitDen == 500
UsCenter == 1500

Byte == 0..255

(***************************************************************************)
(* Bit operations on naturals                                              *)
(***************************************************************************)
RECURSIVE BitXor(_, _)
BitXor(a, b) ==
    IF a = 0 THEN b
    ELSE IF b = 0 THEN a
    ELSE (((a % 2) + (b % 2)) % 2) + 2 * BitXor(a \div 2, b \div 2)

RECURSIVE BitAnd(_, _)
BitAnd(a, b) ==
    IF a = 0 \/ b = 0 THEN 0
    ELSE ((a % 2) * (b % 2)) + 2 * BitAnd(a \div 2, b \div 2)

(***************************************************************************)
(* crc8_d5(buf): bit-serial CRC-8, polynomial 0xD5, initial value 0        *)
(***************************************************************************)
\* a variant that shifts without ever folding the polynomial in
CrcShiftNoPoly(crc, n) == (crc * (2 ^ n)) % 256

RECURSIVE CrcShift(_, _)
CrcShift(crc, n) ==
    IF n = 0 THEN crc
    ELSE IF BitAnd(crc, 128) # 0
         THEN CrcShift(BitAnd(BitXor(crc * 2, CrcPoly), 255), n - 1)
         ELSE CrcShift(BitAnd(crc * 2, 255), n - 1)

\* the inner loop's eight steps on every value the accumulator can hold
CrcByteTable == [c \in Byte |-> CrcShift(c, 8)]

\* the for loop's body on one byte b
CrcByte(crc, b) == CrcByteTable[BitXor(crc, b)]

\* the for loop over buf[lo..hi], entered with the accumulator crc.  The range
\* is halved, and the accumulator after the first half is bound as a value (m)
\* before the second half runs, so that the evaluation nests log(n) deep
RECURSIVE CrcRange(_, _, _, _)
CrcRange(crc, buf, lo, hi) ==
    IF lo > hi THEN crc
    ELSE IF lo = hi THEN CrcByte(crc, buf[lo])
    ELSE CHOOSE r \in {CrcRange(m, buf, ((lo + hi) \div 2) + 1, hi) :
                       m \in {CrcRange(crc, buf, lo, (lo + hi) \div 2)}} : TRUE

crc8_d5(buf) == CrcRange(0, buf, 1, Len(buf))

(***************************************************************************)
(* ticks_to_us(t) = int((t - 992) * 5 / 8 + 1500): the float is an exact   *)
(* multiple of 1/8, and int() truncates toward zero.                       *)
(***************************************************************************)
TruncDiv(n, d) == IF n >= 0 THEN n \div d ELSE -((-n) \div d)

\* round(x) of Python 3 for x = n/d: to the nearest integer, a half to the even one
RoundHalfEven(n, d) ==
    LET q == n \div d
        r == n % d
    IN  IF 2 * r < d THEN q
        ELSE IF 2 * r > d THEN q + 1
        ELSE IF q % 2 = 0 THEN q ELSE q + 1

\* a variant that rounds the scaled offset before adding the centre
ticks_to_us_rounded(t) == RoundHalfEven((t - NeutralTick) * 5, 8) + UsCenter

ticks_to_us(t) == TruncDiv((t - NeutralTick) * 5 + UsCenter * 8, 8)

(***************************************************************************)
(* ticks_to_unit(t) = max(-1.0, min(1.0, (us - 1500) / 500.0)), in 1/500   *)
(***************************************************************************)
Min(a, b) == IF a <= b THEN a ELSE b
Max(a, b) == IF a >= b THEN a ELSE b

\* variants that leave out one side of the clamp
ticks_to_unit_no_floor(t) == Min(UnitDen, ticks_to_us(t) - UsCenter)

ticks_to_unit_no_ceiling(t) == Max(-UnitDen, ticks_to_us(t) - UsCenter)

ticks_to_unit(t) ==
    LET us == ticks_to_us(t)
    IN  Max(-UnitDen, Min(UnitDen, us - UsCenter))

\* round(x, 3) of a unit value x = k/500, in thousandths
Round3(k) == (k * 1000) \div UnitDen

(***************************************************************************)
(* Python's unbounded integer bitbuf, as its bits, lowest first            *)
(***************************************************************************)
ByteBits(b) == [i \in 1..8 |-> (b \div (2 ^ (i - 1))) % 2]

BitAt(x, i) == IF i <= Len(x) THEN x[i] ELSE 0

\* x | y
OrBits(x, y) ==
    [i \in 1..Max(Len(x), Len(y)) |-> IF BitAt(x, i) = 1 \/ BitAt(y, i) = 1 THEN 1 ELSE 0]

\* a variant that forgets the shift: bitbuf |= b
ShlBitsNone(x, n) == x

\* x << n
ShlBits(x, n) == [i \in 1..n |-> 0] \o x

\* x >> n
ShrBits(x, n) == IF Len(x) <= n THEN <<>> ELSE SubSeq(x, n + 1, Len(x))

RECURSIVE LowBitsFrom(_, _, _)
LowBitsFrom(x, i, n) ==
    IF i > n THEN 0 ELSE BitAt(x, i) + 2 * LowBitsFrom(x, i + 1, n)

\* x & 0x7FF
Low11(x) == LowBitsFrom(x, 1, ChannelBits)

(***************************************************************************)
(* unpack_16ch_11bit(payload22)                                            *)
(***************************************************************************)
\* a variant that shifts the buffer by one bit too few after each channel
RECURSIVE UnpackDrainShort(_)
UnpackDrainShort(s) ==
    IF s.bits >= ChannelBits /\ Len(s.out) < NumChannels
    THEN UnpackDrainShort([bits   |-> s.bits - ChannelBits,
                           bitbuf |-> ShrBits(s.bitbuf, ChannelBits - 1),
                           out    |-> Append(s.out, Low11(s.bitbuf))])
    ELSE s

\* the inner while loop: s = [bits, bitbuf, out]
RECURSIVE UnpackDrain(_)
UnpackDrain(s) ==
    IF s.bits >= ChannelBits /\ Len(s.out) < NumChannels
    THEN UnpackDrain([bits   |-> s.bits - ChannelBits,
                      bitbuf |-> ShrBits(s.bitbuf, ChannelBits),
                      out    |-> Append(s.out, Low11(s.bitbuf))])
    ELSE s

\* one pass of the for loop's body, on byte b
UnpackByte(s, b) ==
    UnpackDrain([bits   |-> s.bits + 8,
                 bitbuf |-> OrBits(s.bitbuf, ShlBits(ByteBits(b), s.bits)),
                 out    |-> s.out])

\* the for loop over payload[lo..hi], entered in state s (halved as in CrcRange)
RECURSIVE UnpackRange(_, _, _, _)
UnpackRange(s, payload, lo, hi) ==
    IF lo > hi THEN s
    ELSE IF lo = hi THEN UnpackByte(s, payload[lo])
    ELSE CHOOSE r \in {UnpackRange(m, payload, ((lo + hi) \div 2) + 1, hi) :
                       m \in {UnpackRange(s, payload, lo, (lo + hi) \div 2)}} : TRUE

UnpackLoop(payload) ==
    UnpackRange([bits |-> 0, bitbuf |-> <<>>, out |-> <<>>], payload, 1, Len(payload))

\* a variant that pads with tick 0
RECURSIVE PadZero(_)
PadZero(out) ==
    IF Len(out) < NumChannels THEN PadZero(Append(out, 0)) ELSE out

\* "Ensure 16 entries"
RECURSIVE PadNeutral(_)
PadNeutral(out) ==
    IF Len(out) < NumChannels THEN PadNeutral(Append(out, NeutralTick)) ELSE out

unpack_16ch_11bit(payload) ==
    SubSeq(PadNeutral(UnpackLoop(payload).out), 1, NumChannels)

(***************************************************************************)
(* The transmitter's side of the wire format: 16 channels of 11 bits as a  *)
(* little-endian bit stream of 22 bytes, and a frame around a payload.     *)
(***************************************************************************)
\* bit j (from 0) of the packed stream of the channel sequence C
PackedBit(C, j) == (C[(j \div ChannelBits) + 1] \div (2 ^ (j % ChannelBits))) % 2

RECURSIVE PackedByteFrom(_, _, _)
PackedByteFrom(C, k, i) ==
    IF i > 7 THEN 0 ELSE PackedBit(C, 8 * k + i) + 2 * PackedByteFrom(C, k, i + 1)

Pack16(C) == [k \in 1..ChannelPayloadLen |-> PackedByteFrom(C, k - 1, 0)]

MkFrame(ftype, payload) ==
    <<CRSF_SYNC, Len(payload) + 2, ftype>> \o payload \o <<crc8_d5(<<ftype>> \o payload)>>

(***************************************************************************)
(* time.ticks_ms() and time.ticks_diff() of the port: a millisecond count  *)
(* that wraps at 2^30, and the signed difference of two such counts.       *)
(***************************************************************************)
TicksPeriod == 2 ^ 30

ticks_ms(c) == c % TicksPeriod

ticks_diff(a, b) ==
    ((a - b + TicksPeriod \div 2) % TicksPeriod) - TicksPeriod \div 2

(***************************************************************************)
(* Bounds of the model and the inputs it is run on                         *)
(***************************************************************************)
MaxSegs == 2
MaxClock == 2000000000

\* milliseconds that may pass between two readings of the clock
Deltas == {0, 49, 50, 51, TicksPeriod \div 2}

\* the clock at start-up: shortly before the tick counter wraps
BootClocks == {TicksPeriod - 60}

AllMid == [i \in 1..NumChannels |-> NeutralTick]
Ramp == [i \in 1..NumChannels |-> 100 * i + 7]
ChannelSets == {AllMid, Ramp}

LinkStatsType == 20

\* a payload that holds the sync marker and gives a type-20 frame the
\* checksum byte 0xC8
SyncCrcPayload == <<CRSF_SYNC, 108>>

\* a frame with bit 0 of its checksum byte flipped
FlipCrc(fr) == [fr EXCEPT ![Len(fr)] = BitXor(fr[Len(fr)], 1)]

\* a frame with its sync byte corrupted
BreakSync(fr) == [fr EXCEPT ![1] = BitXor(fr[1], 8)]

Seg(kind, bytes) == [kind |-> kind, bytes |-> bytes]

Segments ==
    {Seg("garbage", <<0>>),
     Seg("garbage", BreakSync(MkFrame(TYPE_RC_CHANNELS, Pack16(AllMid))))}
    \cup {Seg("noise", <<CRSF_SYNC>>)}
    \cup {Seg("badlen", <<CRSF_SYNC, L>>) : L \in {1, MAX_FRAME - 1, 255}}
    \cup {Seg("frame", MkFrame(TYPE_RC_CHANNELS, Pack16(C))) : C \in ChannelSets}
    \cup {Seg("frame", MkFrame(0, <<0>>)),
          Seg("frame", MkFrame(LinkStatsType, SyncCrcPayload)),
          Seg("frame", MkFrame(LinkStatsType, MkFrame(LinkStatsType, <<>>))),
          Seg("frame", MkFrame(TYPE_RC_CHANNELS, [i \in 1..(MAX_FRAME - 4) |-> i]))}
    \cup {Seg("badcrc", FlipCrc(MkFrame(TYPE_RC_CHANNELS, Pack16(Ramp))))}

RECURSIVE Flatten(_)
Flatten(ss) == IF ss = <<>> THEN <<>> ELSE Head(ss).bytes \o Flatten(Tail(ss))

SegLists == UNION {[1..n -> Segments] : n \in 1..MaxSegs}

\* the ramp script at launch, at clock c with the interlock input at level l
RampStart(c, l) ==
    /\ rpc = "start"
    /\ pct = Unset
    /\ deadline = 0
    /\ uclock = c
    /\ line = l
    /\ cmds = <<>>
    /\ cmdAt = c
    /\ held = 0
    /\ tripped = FALSE
    /\ waits = 0

\* the decoder at start-up, before the first read_frame() call
DecoderStart(ss, c) ==
    /\ segs = ss
    /\ stream = Flatten(ss)
    /\ pos = 0
    /\ pc = "hunt"
    /\ length = Unset
    /\ rest = <<>>
    /\ f = None
    /\ emptyReads = 0
    /\ returned = <<>>
    /\ frameStall = FALSE
    /\ shortRead = FALSE
    /\ noneReturned = FALSE
    /\ ch_ticks = <<>>
    /\ clock = c
    /\ last_print = ticks_ms(c)
    /\ last_clock = c
    /\ printed = None
    /\ nprinted = 0
    /\ decoded = FALSE
    /\ didPrint = FALSE
    /\ gap = 0

(***************************************************************************)
(* read_frame(), one UART read per step.  uart.read(n) gives the next k    *)
(* bytes of the stream for some k <= n: fewer than n when the timeout ends *)
(* the read first, none (a falsy result) when nothing came at all.         *)
(***************************************************************************)
Remaining == Len(stream) - pos

Delivered(k) == SubSeq(stream, pos + 1, pos + k)

\* return v
Return(v) ==
    /\ f' = v
    /\ pc' = "loop"
    /\ returned' = IF v = None THEN returned ELSE Append(returned, v)
    /\ noneReturned' = (noneReturned \/ v = None)

\* a variant that takes any byte for the sync marker
IsSyncAny(b) == TRUE

IsSync(b) == b = CRSF_SYNC

\* a variant of the sync hunt that reads again when a read returns nothing
SyncHuntSpin ==
    /\ pc = "hunt"
    /\ \E k \in 0..Min(1, Remaining) :
         /\ pos' = pos + k
         /\ shortRead' = (shortRead \/ k < 1)
         /\ pc' = IF k = 1 /\ IsSync(stream[pos + k]) THEN "len" ELSE "hunt"
         /\ emptyReads' = emptyReads + (IF k = 0 THEN 1 ELSE 0)
    /\ UNCHANGED <<f, returned, noneReturned, length, rest, frameStall>>
    /\ UNCHANGED <<segs, stream, loopVars, fin, fout, rampVars>>

\* the sync hunt's uart.read(1)
SyncHunt ==
    /\ pc = "hunt"
    /\ \E k \in 0..Min(1, Remaining) :
         /\ pos' = pos + k
         /\ shortRead' = (shortRead \/ k < 1)
         /\ IF k = 0
            THEN /\ Return(None)
                 /\ emptyReads' = emptyReads + 1
            ELSE /\ pc' = IF IsSync(stream[pos + 1]) THEN "len" ELSE "hunt"
                 /\ UNCHANGED <<f, returned, noneReturned, emptyReads>>
    /\ UNCHANGED <<length, rest, frameStall>>
    /\ UNCHANGED <<segs, stream, loopVars, fin, fout, rampVars>>

\* a variant that bounds the length by the frame size itself
LengthOkLoose(len) == ~(len < 2 \/ len > MAX_FRAME)

\* a variant that forgets the lower bound of the length
LengthOkNoFloor(len) == ~(len > (MAX_FRAME - 2))

LengthOk(len) == ~(len < 2 \/ len > (MAX_FRAME - 2))

\* lb = uart.read(1) and the test of the length
ReadLength ==
    /\ pc = "len"
    /\ \E k \in 0..Min(1, Remaining) :
         /\ pos' = pos + k
         /\ shortRead' = (shortRead \/ k < 1)
         /\ IF k = 0
            THEN /\ Return(None)
                 /\ emptyReads' = emptyReads + 1
                 /\ frameStall' = TRUE
                 /\ UNCHANGED length
            ELSE /\ length' = stream[pos + 1]
                 /\ IF LengthOk(stream[pos + 1])
                    THEN /\ pc' = "body"
                         /\ UNCHANGED <<f, returned, noneReturned>>
                    ELSE Return(None)
                 /\ UNCHANGED <<emptyReads, frameStall>>
    /\ UNCHANGED rest
    /\ UNCHANGED <<segs, stream, loopVars, fin, fout, rampVars>>

\* a variant that takes the frame whatever its checksum byte
CrcAcceptsAny(frame_type, payload, crc) == TRUE

CrcAccepts(frame_type, payload, crc) ==
    ~(crc8_d5(<<frame_type>> \o payload) # crc)

\* a variant that tests only for an empty body
ShortBodyOnlyEmpty(r, len) == Len(r) = 0

\* not rest or len(rest) != length
ShortBody(r, len) == Len(r) = 0 \/ Len(r) # len

\* a variant that leaves the checksum byte in the payload: rest[1:]
PayloadWithCrc(r) == SubSeq(r, 2, Len(r))

\* payload = rest[1:-1]
PayloadOf(r) == SubSeq(r, 2, Len(r) - 1)

\* rest = uart.read(length), the split of rest and the test of the CRC
ReadBody ==
    /\ pc = "body"
    /\ \E k \in 0..Min(length, Remaining) :
         /\ pos' = pos + k
         /\ rest' = Delivered(k)
         /\ shortRead' = (shortRead \/ k < length)
         /\ IF ShortBody(Delivered(k), length)
            THEN /\ Return(None)
                 /\ frameStall' = TRUE
                 /\ emptyReads' = emptyReads + (IF k = 0 THEN 1 ELSE 0)
            ELSE LET r          == Delivered(k)
                     frame_type == r[1]
                     payload    == PayloadOf(r)
                     crc        == r[Len(r)]
                 IN  /\ IF CrcAccepts(frame_type, payload, crc)
                        THEN Return(<<frame_type, payload>>)
                        ELSE Return(None)
                     /\ UNCHANGED <<frameStall, emptyReads>>
    /\ UNCHANGED length
    /\ UNCHANGED <<segs, stream, loopVars, fin, fout, rampVars>>

(***************************************************************************)
(* The main loop's body after read_frame() has returned, up to the next    *)
(* call of read_frame()                                                    *)
(***************************************************************************)
\* a variant that tests the type alone
IsChannelFrameAnyLen(v) == v # None /\ v[1] = TYPE_RC_CHANNELS

IsChannelFrame(v) ==
    v # None /\ v[1] = TYPE_RC_CHANNELS /\ Len(v[2]) = ChannelPayloadLen

\* a variant with the period mistyped
ShouldPrintEarly(now, last) == ticks_diff(now, last) > 5

\* a variant that subtracts the two counts without ticks_diff
ShouldPrintNoWrap(now, last) == now - last > PrintPeriod

ShouldPrint(now, last) == ticks_diff(now, last) > PrintPeriod

\* the arguments of print(): round(.., 3) of CH1..4 and ch_ticks[:8]
PrintLine(ticks) ==
    [unit |-> [i \in 1..4 |-> Round3(ticks_to_unit(ticks[i]))],
     raw  |-> SubSeq(ticks, 1, 8)]

\* the call of read_frame() that starts the next iteration
CallReadFrame ==
    /\ pc' = "hunt"
    /\ length' = Unset
    /\ rest' = <<>>
    /\ emptyReads' = 0
    /\ UNCHANGED <<pos, f, returned, frameStall, shortRead, noneReturned>>

MainLoop ==
    /\ pc = "loop"
    /\ CallReadFrame
    /\ IF ~IsChannelFrame(f)
       THEN /\ decoded' = FALSE
            /\ didPrint' = FALSE
            /\ UNCHANGED <<ch_ticks, last_print, clock, last_clock, printed,
                           nprinted, gap>>
       ELSE \E d \in Deltas :
              /\ clock + d <= MaxClock
              /\ clock' = clock + d
              /\ ch_ticks' = unpack_16ch_11bit(f[2])
              /\ decoded' = TRUE
              /\ gap' = clock' - last_clock
              /\ IF ShouldPrint(ticks_ms(clock'), last_print)
                 THEN /\ printed' = <<PrintLine(ch_ticks')>>
                      /\ last_print' = ticks_ms(clock')
                      /\ last_clock' = clock'
                      /\ nprinted' = nprinted + 1
                      /\ didPrint' = TRUE
                 ELSE /\ didPrint' = FALSE
                      /\ UNCHANGED <<printed, last_print, last_clock, nprinted>>
    /\ UNCHANGED <<segs, stream, fin, fout, rampVars>>

(***************************************************************************)
(* The decoder on a stream                                                 *)
(***************************************************************************)
Init ==
    /\ \E ss \in SegLists, c \in BootClocks : DecoderStart(ss, c)
    /\ RampStart(0, 1)
    /\ fin = None
    /\ fout = None

Next == SyncHunt \/ ReadLength \/ ReadBody \/ MainLoop

Spec == Init /\ [][Next]_vars

(***************************************************************************)
(* The pure functions, each applied once to an input drawn at the start    *)
(***************************************************************************)
TickMax == 2047

\* neither program has run: the decoder with nothing on the wire, the ramp
\* script at launch
DecoderIdle == DecoderStart(<<>>, 0) /\ RampStart(0, 1)

\* --- ticks_to_us and ticks_to_unit on every 11-bit tick
InitTicks ==
    /\ DecoderIdle
    /\ fin \in 0..TickMax
    /\ fout = None

ApplyTicks ==
    /\ fout = None
    /\ fout' = <<[us |-> ticks_to_us(fin), unit |-> ticks_to_unit(fin)]>>
    /\ UNCHANGED <<decoderVars, fin, rampVars>>

SpecTicks == InitTicks /\ [][ApplyTicks]_vars

\* --- crc8_d5 on a buffer and on the buffer with one bit flipped
CrcBuffers(n) == {[i \in 1..n |-> 0], [i \in 1..n |-> (37 * i + 11) % 256]}

FlipBit(buf, idx, bit) == [buf EXCEPT ![idx] = BitXor(buf[idx], 2 ^ bit)]

InitCrc ==
    /\ DecoderIdle
    /\ \E n \in 1..MAX_FRAME :
         \E buf \in CrcBuffers(n), idx \in 1..n, bit \in 0..7 :
           fin = [buf |-> buf, idx |-> idx, bit |-> bit]
    /\ fout = None

ApplyCrc ==
    /\ fout = None
    /\ fout' = <<[crc     |-> crc8_d5(fin.buf),
                  flipped |-> crc8_d5(FlipBit(fin.buf, fin.idx, fin.bit))]>>
    /\ UNCHANGED <<decoderVars, fin, rampVars>>

SpecCrc == InitCrc /\ [][ApplyCrc]_vars

\* --- unpack_16ch_11bit on the packed form of a Channel Set
TickSamples == {0, 1, NeutralTick, 1023, 1024, 1365, TickMax}

\* every channel at `base`, but channel i at v
ChannelSetsOneOff ==
    {[j \in 1..NumChannels |-> IF j = i THEN v ELSE base] :
        i \in 1..NumChannels, v \in TickSamples, base \in TickSamples}

InitUnpack ==
    /\ DecoderIdle
    /\ fin \in ChannelSetsOneOff \cup {Ramp}
    /\ fout = None

ApplyUnpack ==
    /\ fout = None
    /\ fout' = <<[payload  |-> Pack16(fin),
                  out      |-> unpack_16ch_11bit(Pack16(fin)),
                  taken    |-> Len(UnpackLoop(Pack16(fin)).out),
                  leftover |-> UnpackLoop(Pack16(fin)).bits]>>
    /\ UNCHANGED <<decoderVars, fin, rampVars>>

SpecUnpack == InitUnpack /\ [][ApplyUnpack]_vars

\* --- unpack_16ch_11bit on every payload length read_frame can return
MaxPayload == MAX_FRAME - 4

\* payloads of n bytes: all zeros, all ones, and two mixed patterns
PayloadsOfLen(n) ==
    {[i \in 1..n |-> 0], [i \in 1..n |-> 255],
     [i \in 1..n |-> (37 * i + 11) % 256], [i \in 1..n |-> (201 * i + 85) % 256]}

InitUnpackAny ==
    /\ DecoderIdle
    /\ \E n \in 0..MaxPayload : fin \in PayloadsOfLen(n)
    /\ fout = None

\* fout = <<..>> marks the application, also when the payload is empty
ApplyUnpackAny ==
    /\ fout = None
    /\ fout' = <<[out      |-> unpack_16ch_11bit(fin),
                  taken    |-> Len(UnpackLoop(fin).out),
                  leftover |-> UnpackLoop(fin).bits]>>
    /\ UNCHANGED <<decoderVars, fin, rampVars>>

SpecUnpackAny == InitUnpackAny /\ [][ApplyUnpackAny]_vars

(***************************************************************************)
(* The throttle ramp script ESC_Speed_Ramp_wSafety.py, one statement per   *)
(* step.  The interlock input may change level between any two steps; time *)
(* passes in the sleeps, each of which lasts the time asked for or longer. *)
(***************************************************************************)
F_HZ == 50
MIN_US == 1000
MAX_US == 2000
HOLD_S == 5
CHECK_MS == 50
PERIOD_US == 1000000 \div F_HZ
StableMs == 300
ArmHoldS == 1
StablePollMs == 5
WaitPollMs == 100
RampStep == 10
RampTop == 100

\* utime.ticks_add
ticks_add(t, d) == (t + d) % TicksPeriod

\* set_pulse_us(us): the duty written to the PWM
set_pulse_us(us) == ((IF us < 0 THEN 0 ELSE us) * 65535) \div PERIOD_US

\* set_percent(percent): the clamped percent, the pulse and the duty
set_percent(percent) ==
    LET p  == IF percent < 0 THEN 0 ELSE IF percent > 100 THEN 100 ELSE percent
        us == MIN_US + ((MAX_US - MIN_US) * p) \div 100
    IN  [percent |-> p, us |-> us, duty |-> set_pulse_us(us)]

\* a call set_percent(percent) of the script
Command(percent) ==
    /\ cmds' = Append(cmds, set_percent(percent))
    /\ cmdAt' = uclock
    /\ held' = uclock - cmdAt

\* a variant that takes the low level for the jumper
safety_ok_inverted(level) == level = 0

safety_ok(level) == level = 1

\* how long a sleep of n ms can last
SleepTimes(n) == {n, 2 * n}

\* the clock the script starts at: 3 s before the tick counter wraps, which
\* then happens during the ramp's first hold
RampBootClocks == {TicksPeriod - 3000}

\* kill_and_wait's sleeps the model follows
MaxWaits == 1

\* the interlock input changes level
LineChange ==
    /\ line' = 1 - line
    /\ UNCHANGED <<rpc, pct, deadline, uclock, cmds, cmdAt, held, tripped, waits>>
    /\ UNCHANGED <<decoderVars, fin, fout>>

\* utime.sleep_ms(n), then on to the statement at `to`
Sleep(n, to) ==
    /\ \E d \in SleepTimes(n) : uclock' = uclock + d
    /\ rpc' = to
    /\ UNCHANGED <<pct, deadline, line, cmds, cmdAt, held, tripped, waits>>
    /\ UNCHANGED <<decoderVars, fin, fout>>

\* raise RuntimeError(..) inside the try: control goes to the except clause
Raise ==
    /\ rpc' = "kill"
    /\ tripped' = TRUE

\* require_safety_stable(300): t0 = utime.ticks_ms()
StableStart ==
    /\ rpc = "start"
    /\ deadline' = ticks_ms(uclock)
    /\ rpc' = "stable_test"
    /\ UNCHANGED <<pct, uclock, line, cmds, cmdAt, held, tripped, waits>>
    /\ UNCHANGED <<decoderVars, fin, fout>>

\* while utime.ticks_diff(utime.ticks_ms(), t0) < ms
StableTest ==
    /\ rpc = "stable_test"
    /\ rpc' = IF ticks_diff(ticks_ms(uclock), deadline) < StableMs
              THEN "stable_poll" ELSE "arm"
    /\ UNCHANGED <<pct, deadline, uclock, line, cmds, cmdAt, held, tripped, waits>>
    /\ UNCHANGED <<decoderVars, fin, fout>>

\* if not safety_ok(): raise
StablePoll ==
    /\ rpc = "stable_poll"
    /\ IF ~safety_ok(line)
       THEN Raise
       ELSE rpc' = "stable_sleep" /\ UNCHANGED tripped
    /\ UNCHANGED <<pct, deadline, uclock, line, cmds, cmdAt, held, waits>>
    /\ UNCHANGED <<decoderVars, fin, fout>>

\* utime.sleep_ms(5)
StableSleep == rpc = "stable_sleep" /\ Sleep(StablePollMs, "stable_test")

\* set_percent(0) before the arming hold
Arm ==
    /\ rpc = "arm"
    /\ Command(0)
    /\ rpc' = "hold_start"
    /\ UNCHANGED <<pct, deadline, uclock, line, tripped, waits>>
    /\ UNCHANGED <<decoderVars, fin, fout>>

\* hold_with_safety(seconds): end_ms = utime.ticks_add(utime.ticks_ms(), ..)
HoldStart ==
    /\ rpc = "hold_start"
    /\ deadline' = ticks_add(ticks_ms(uclock),
                             (IF pct = Unset THEN ArmHoldS ELSE HOLD_S) * 1000)
    /\ rpc' = "hold_test"
    /\ UNCHANGED <<pct, uclock, line, cmds, cmdAt, held, tripped, waits>>
    /\ UNCHANGED <<decoderVars, fin, fout>>

\* a variant that stops the hold two polling periods early
HoldRunningShort(end_ms, now) == ticks_diff(end_ms, now) > 2 * CHECK_MS

\* while utime.ticks_diff(end_ms, utime.ticks_ms()) > 0
HoldRunning(end_ms, now) == ticks_diff(end_ms, now) > 0

\* the hold's loop test; when the hold is over, the for loop's next pct, or
\* the end of the loop
HoldTest ==
    /\ rpc = "hold_test"
    /\ IF HoldRunning(deadline, ticks_ms(uclock))
       THEN rpc' = "hold_poll" /\ UNCHANGED pct
       ELSE IF pct = Unset
            THEN rpc' = "step" /\ pct' = 0
            ELSE IF pct + RampStep <= RampTop
                 THEN rpc' = "step" /\ pct' = pct + RampStep
                 ELSE rpc' = "cut" /\ UNCHANGED pct
    /\ UNCHANGED <<deadline, uclock, line, cmds, cmdAt, held, tripped, waits>>
    /\ UNCHANGED <<decoderVars, fin, fout>>

\* if not safety_ok(): raise
HoldPoll ==
    /\ rpc = "hold_poll"
    /\ IF ~safety_ok(line)
       THEN Raise
       ELSE rpc' = "hold_sleep" /\ UNCHANGED tripped
    /\ UNCHANGED <<pct, deadline, uclock, line, cmds, cmdAt, held, waits>>
    /\ UNCHANGED <<decoderVars, fin, fout>>

\* utime.sleep_ms(CHECK_MS)
HoldSleep == rpc = "hold_sleep" /\ Sleep(CHECK_MS, "hold_test")

\* set_percent(pct) in the for loop
Step ==
    /\ rpc = "step"
    /\ Command(pct)
    /\ rpc' = "hold_start"
    /\ UNCHANGED <<pct, deadline, uclock, line, tripped, waits>>
    /\ UNCHANGED <<decoderVars, fin, fout>>

\* set_percent(0) after the loop
Cut ==
    /\ rpc = "cut"
    /\ Command(0)
    /\ rpc' = "final_sleep"
    /\ UNCHANGED <<pct, deadline, uclock, line, tripped, waits>>
    /\ UNCHANGED <<decoderVars, fin, fout>>

\* utime.sleep(1), the end of the try block
FinalSleep == rpc = "final_sleep" /\ Sleep(1000, "done")

\* kill_and_wait: set_percent(0)
Kill ==
    /\ rpc = "kill"
    /\ Command(0)
    /\ rpc' = "wait_poll"
    /\ UNCHANGED <<pct, deadline, uclock, line, tripped, waits>>
    /\ UNCHANGED <<decoderVars, fin, fout>>

\* while not safety_ok()
WaitPoll ==
    /\ rpc = "wait_poll"
    /\ rpc' = IF ~safety_ok(line) THEN "wait_sleep" ELSE "done"
    /\ UNCHANGED <<pct, deadline, uclock, line, cmds, cmdAt, held, tripped, waits>>
    /\ UNCHANGED <<decoderVars, fin, fout>>

\* utime.sleep_ms(100)
WaitSleep ==
    /\ rpc = "wait_sleep"
    /\ waits < MaxWaits
    /\ waits' = waits + 1
    /\ \E d \in SleepTimes(WaitPollMs) : uclock' = uclock + d
    /\ rpc' = "wait_poll"
    /\ UNCHANGED <<pct, deadline, line, cmds, cmdAt, held, tripped>>
    /\ UNCHANGED <<decoderVars, fin, fout>>

InitRamp ==
    /\ DecoderStart(<<>>, 0)
    /\ fin = None
    /\ fout = None
    /\ \E c \in RampBootClocks, l \in {0, 1} : RampStart(c, l)

NextRamp ==
    \/ LineChange
    \/ StableStart \/ StableTest \/ StablePoll \/ StableSleep
    \/ Arm \/ HoldStart \/ HoldTest \/ HoldPoll \/ HoldSleep \/ Step
    \/ Cut \/ FinalSleep
    \/ Kill \/ WaitPoll \/ WaitSleep

SpecRamp == InitRamp /\ [][NextRamp]_vars

(***************************************************************************)
(* Properties of the pure functions                                        *)
(***************************************************************************)

\* C4: crc8_d5 yields a byte, and flipping any one bit of a buffer of 1 up to
\* MAX_FRAME bytes changes the checksum.
C4_NoSingleBitCollision ==
    fout # None =>
        /\ fout[1].crc \in Byte
        /\ fout[1].flipped \in Byte
        /\ fout[1].flipped # fout[1].crc

\* C4's case: a bit of the first byte of a buffer of the maximum frame size was
\* flipped and both checksums were computed.
C4_Witness ==
    /\ fout # None
    /\ Len(fin.buf) = MAX_FRAME
    /\ fin.idx = 1
    /\ fin.buf[1] # 0

\* C5: unpacking the 22 packed bytes of a Channel Set gives the Channel Set
\* back, every one of the 16 values extracted (none padded) and no bit left.
C5_RoundTrip ==
    fout # None =>
        /\ Len(fout[1].payload) = 22
        /\ fout[1].out = fin
        /\ fout[1].taken = 16
        /\ fout[1].leftover = 0

\* C5's case: a Channel Set whose last channel differs from the others, and
\* from the neutral tick, was packed and unpacked.
C5_Witness ==
    /\ fout # None
    /\ fin[16] = 2047
    /\ fin[1] = 0

\* C6 as stated: ticks_to_us(t) is round((t - 992) * 5 / 8) + 1500.
C6_AsStated ==
    fout # None => fout[1].us = RoundHalfEven((fin - 992) * 5, 8) + 1500

\* C6 as amended: ticks_to_us(t) is (t - 992) * 5 / 8 + 1500 with its fraction
\* dropped: us <= (t - 992) * 5 / 8 + 1500 < us + 1.
C6_Truncates ==
    fout # None =>
        /\ 8 * fout[1].us <= (fin - 992) * 5 + 8 * 1500
        /\ (fin - 992) * 5 + 8 * 1500 < 8 * fout[1].us + 8

\* C6's case: a tick whose scaled offset has a fraction above one half (993
\* gives 0.625) has been converted.
C6_Witness ==
    /\ fout # None
    /\ fin = 993
    /\ fout[1].us = 1500

\* C7 as stated: tick 0 gives 875 us and unit -1.0; tick 2047 gives unit 1.0.
C7_AsStated ==
    fout # None =>
        /\ fin = 0 => (fout[1].us = 875 /\ fout[1].unit = -UnitDen)
        /\ fin = 2047 => fout[1].unit = UnitDen

\* C7 as amended: tick 0 gives 880 us and unit -1.0; tick 2047 gives unit 1.0.
C7_Extremes ==
    fout # None =>
        /\ fin = 0 => (fout[1].us = 880 /\ fout[1].unit = -UnitDen)
        /\ fin = 2047 => fout[1].unit = UnitDen

\* C7's case: tick 0 has been converted.
C7_Witness == fout # None /\ fin = 0

\* C8: the unit is (us - 1500) / 500 clamped to [-1, 1], never decreases as
\* the tick grows, and tick 992 gives 1500 us and unit 0.0.
C8_UnitClampedMonotone ==
    fout # None =>
        /\ fout[1].unit = (IF fout[1].us - 1500 < -500 THEN -500
                           ELSE IF fout[1].us - 1500 > 500 THEN 500
                           ELSE fout[1].us - 1500)
        /\ fout[1].unit >= -UnitDen
        /\ fout[1].unit <= UnitDen
        /\ fin > 0 => ticks_to_unit(fin - 1) <= fout[1].unit
        /\ fin = 992 => (fout[1].us = 1500 /\ fout[1].unit = 0)

\* C8's case: the centre tick 992 has been converted.
C8_Witness == fout # None /\ fin = 992 /\ fout[1].unit = 0

\* bit j (from 0) of the payload p as a little-endian bit stream
PayloadBit(p, j) == (p[(j \div 8) + 1] \div (2 ^ (j % 8))) % 2

RECURSIVE ChannelBitsFrom(_, _, _)
\* bits b..10 of the i-th group of 11 bits of p, as a number
ChannelBitsFrom(p, i, b) ==
    IF b > 10 THEN 0
    ELSE PayloadBit(p, 11 * (i - 1) + b) + 2 * ChannelBitsFrom(p, i, b + 1)

\* C13: for a payload of 0 to 60 bytes, unpack_16ch_11bit returns 16 entries
\* in 0..2047; the first min(16, floor(8n/11)) are the payload's groups of 11
\* bits, in order, and every entry after them is the neutral tick 992.
C13_AlwaysSixteen ==
    fout # None =>
        /\ Len(fout[1].out) = 16
        /\ \A i \in 1..16 : fout[1].out[i] \in 0..2047
        /\ fout[1].taken = Min(16, (8 * Len(fin)) \div 11)
        /\ \A i \in 1..16 :
              IF i <= fout[1].taken
              THEN fout[1].out[i] = ChannelBitsFrom(fin, i, 0)
              ELSE fout[1].out[i] = 992

\* C13's case: a payload of 21 bytes, one short of a Channel Set, has been
\* unpacked: 15 values extracted, the last entry padded.
C13_Witness ==
    /\ fout # None
    /\ Len(fin) = 21
    /\ fout[1].taken = 15
    /\ fout[1].out[15] = 2047
    /\ fout[1].out[16] = 992

(***************************************************************************)
(* Properties of the frame reader                                          *)
(***************************************************************************)

\* the body read of the call that has just returned is a channel-data frame,
\* complete and correctly framed, whose checksum byte is not the CRC of its
\* type and payload
AlteredChannelCandidate ==
    /\ length = ChannelPayloadLen + 2
    /\ Len(rest) = length
    /\ rest[1] = TYPE_RC_CHANNELS
    /\ rest[Len(rest)] # crc8_d5(SubSeq(rest, 1, Len(rest) - 1))

\* C1: read_frame returns a pair only for a candidate whose trailing byte is
\* the CRC-8 of its type and payload; a channel-data frame with an altered
\* checksum byte makes it return None; and the loop iteration that gets None
\* neither unpacks nor prints.
C1_CrcGate ==
    /\ (pc = "loop" /\ f # None) =>
          /\ length >= 2
          /\ Len(rest) = length
          /\ f = <<rest[1], SubSeq(rest, 2, Len(rest) - 1)>>
          /\ crc8_d5(<<f[1]>> \o f[2]) = rest[Len(rest)]
    /\ (pc = "loop" /\ AlteredChannelCandidate) => f = None
    /\ (pc # "loop" /\ f = None) => (~decoded /\ ~didPrint)

\* C1's case: read_frame has just read the whole body of a channel-data frame
\* whose checksum byte was altered.
C1_Witness == pc = "loop" /\ AlteredChannelCandidate

\* no byte of bs is the sync marker
NoSync(bs) == \A i \in 1..Len(bs) : bs[i] # CRSF_SYNC

\* the stream is one or more non-sync bytes and then one complete valid frame
GarbageThenFrame ==
    /\ Len(segs) = 2
    /\ segs[1].kind = "garbage"
    /\ Len(segs[1].bytes) >= 1
    /\ NoSync(segs[1].bytes)
    /\ segs[2].kind = "frame"

\* the (frame_type, payload) pair of the frame whose bytes are fr
PairOf(fr) == <<fr[3], SubSeq(fr, 4, Len(fr) - 1)>>

\* C2 as stated: on such a stream, the first frame read_frame returns is that
\* valid frame.
C2_AsStated ==
    (GarbageThenFrame /\ returned # <<>>) => returned[1] = PairOf(segs[2].bytes)

\* C2 as amended: on such a stream, as long as no read of the frame's length
\* byte or body has come back short, nothing is returned while the sync byte
\* is not consumed, and once it is consumed the call that consumed it is
\* either still reading or has returned exactly that frame, and nothing else
\* has been returned.
C2_Resync ==
    (GarbageThenFrame /\ ~frameStall) =>
        /\ returned \in {<<>>, <<PairOf(segs[2].bytes)>>}
        /\ pos <= Len(segs[1].bytes) => returned = <<>>
        /\ pos > Len(segs[1].bytes) =>
              \/ pc \in {"len", "body"}
              \/ returned = <<PairOf(segs[2].bytes)>>

\* C2's case: the garbage has been skipped, after a read that came back empty
\* in the middle of it or not, and the frame has been returned.
C2_Witness ==
    /\ GarbageThenFrame
    /\ ~frameStall
    /\ pc = "loop"
    /\ f = PairOf(segs[2].bytes)
    /\ Len(segs[1].bytes) > 1

\* C3 as stated: every accepted length is at most 61 and every returned
\* payload at most 59 bytes.
C3_AsStated ==
    /\ pc = "body" => (length >= 2 /\ length <= 61)
    /\ (pc = "loop" /\ f # None) => Len(f[2]) <= 59

\* C3 as amended: a length byte is accepted only when 2 <= L <= 62; for any
\* other L read_frame returns None with the length byte the last byte
\* consumed and no body read; every returned payload has 0 to 60 bytes.
C3_LengthGate ==
    /\ pc = "body" => (length >= 2 /\ length <= 62)
    /\ (pc = "loop" /\ length # Unset /\ (length < 2 \/ length > 62)) =>
          /\ f = None
          /\ rest = <<>>
          /\ pos >= 2
          /\ stream[pos] = length
          /\ stream[pos - 1] = CRSF_SYNC
    /\ (pc = "loop" /\ f # None) =>
          (Len(f[2]) = length - 2 /\ Len(f[2]) >= 0 /\ Len(f[2]) <= 60)
    /\ \A i \in 1..Len(returned) : Len(returned[i][2]) <= 60

\* C3's case: a frame with length byte 62 (a payload of 60 bytes) has been
\* returned.
C3_Witness == pc = "loop" /\ f # None /\ length = 62 /\ Len(f[2]) = 60

\* the frame of the end-to-end scenario: every channel at the neutral tick
EndToEndFrame == MkFrame(TYPE_RC_CHANNELS, Pack16(AllMid))

\* C11: when the stream starts with the bytes 0xC8, 0x18, 0x16, the 22 bytes
\* packing [992]*16 and the CRC-8 of type and payload (0xAD), and those bytes
\* have been fed (every read finds the bytes it asks for), the first
\* read_frame call returns (0x16, payload), the loop unpacks [992]*16 from it,
\* and ticks_to_unit of every channel is 0.0.
C11_EndToEnd ==
    (segs # <<>> /\ segs[1].bytes = EndToEndFrame /\ ~shortRead) =>
        /\ SubSeq(stream, 1, 3) = <<200, 24, 22>>
        /\ stream[26] = 173
        /\ returned = <<>> => ~noneReturned
        /\ returned # <<>> => returned[1] = <<22, SubSeq(stream, 4, 25)>>
        /\ (pc = "loop" /\ pos = 26) => f = <<22, SubSeq(stream, 4, 25)>>
        /\ (pc = "hunt" /\ pos = 26) =>
              /\ decoded
              /\ ch_ticks = [i \in 1..16 |-> 992]
              /\ unpack_16ch_11bit(f[2]) = [i \in 1..16 |-> 992]
              /\ \A i \in 1..16 : ticks_to_unit(ch_ticks[i]) = 0

\* C11's case: the scenario's frame has been read by the first call and the
\* loop has unpacked it.
C11_Witness ==
    /\ segs # <<>>
    /\ segs[1].bytes = EndToEndFrame
    /\ ~shortRead
    /\ pc = "hunt"
    /\ pos = 26
    /\ returned = <<f>>
    /\ decoded

\* C15: when the body read delivers fewer than L bytes, read_frame returns
\* None and no frame; the bytes delivered stay consumed (the position in the
\* stream never moves back); and the next call starts its sync hunt at the
\* first byte not yet consumed.
C15_ShortRead ==
    /\ [][(pc = "body" /\ pos' - pos < length) =>
             /\ f' = None
             /\ pc' = "loop"
             /\ returned' = returned
             /\ rest' = SubSeq(stream, pos + 1, pos')]_vars
    /\ [][pc = "loop" => (pc' = "hunt" /\ pos' = pos)]_vars
    /\ [][pos' >= pos]_vars
    /\ [][(pc = "hunt" /\ pos' # pos) =>
             /\ pos' = pos + 1
             /\ (pc' = "len") = (stream[pos'] = CRSF_SYNC)
             /\ pc' \in {"len", "hunt"}]_vars

\* C15's case: a body read has delivered some but not all of the L bytes of
\* an accepted length, the call has returned None, and the next call's hunt
\* has moved past the first byte that had not been consumed.
C15_Witness ==
    /\ pc \in {"hunt", "len"}
    /\ length = Unset
    /\ frameStall
    /\ f = None
    /\ returned = <<>>
    /\ pos >= 4
    /\ stream[1] = CRSF_SYNC
    /\ LengthOk(stream[2])
    /\ pos < 2 + stream[2]

\* C16: a read_frame call makes at most one read that returns nothing, and
\* that read ends the call with None; every read of a call either ends the
\* call or consumes at least one byte of the stream, of which there are
\* Len(stream), so every call ends.
C16_Starvation ==
    /\ [](/\ emptyReads <= 1
          /\ emptyReads = 1 => (pc = "loop" /\ f = None)
          /\ pos <= Len(stream))
    /\ [][(pc \in {"hunt", "len", "body"}) => (pc' = "loop" \/ pos' > pos)]_vars
    /\ [][(pc \in {"hunt", "len"} /\ pos' = pos) =>
             (pc' = "loop" /\ f' = None /\ emptyReads' = 1)]_vars

\* C16's case: a call has hunted through bytes that are not the sync marker
\* and has then ended on a read that returned nothing, before the end of the
\* stream.
C16_Witness ==
    /\ pc = "loop"
    /\ emptyReads = 1
    /\ length = Unset
    /\ pos > 1
    /\ pos < Len(stream)
    /\ stream[pos] # CRSF_SYNC

\* the bytes before the stream's last segment
LenBeforeLast == Len(stream) - Len(segs[Len(segs)].bytes)

\* the stream is G ++ F: its last segment is a complete valid frame
EndsWithFrame == Len(segs) >= 2 /\ segs[Len(segs)].kind = "frame"

\* every 0xC8 of G that the hunt can take for a sync marker starts a
\* candidate that ends inside G: G is made of bytes without 0xC8, of sync
\* markers with a length byte outside 2..62, and of complete frames, valid or
\* with a wrong checksum
CandidatesEndInG ==
    \A i \in 1..(Len(segs) - 1) :
        \/ segs[i].kind = "garbage" /\ NoSync(segs[i].bytes)
        \/ segs[i].kind \in {"badlen", "badcrc", "frame"}

RECURSIVE FramePairsOf(_)
\* the pairs of the valid frames among the segments ss, in order
FramePairsOf(ss) ==
    IF ss = <<>> THEN <<>>
    ELSE IF Head(ss).kind = "frame"
         THEN <<PairOf(Head(ss).bytes)>> \o FramePairsOf(Tail(ss))
         ELSE FramePairsOf(Tail(ss))

\* C17 as stated: on G ++ F, for whatever G, once the stream is exhausted F
\* has been returned (here already when every read delivers the bytes it
\* asks for).
C17_AsStated ==
    (EndsWithFrame /\ ~shortRead /\ pos = Len(stream) /\ pc = "loop") =>
        \E i \in 1..Len(returned) : returned[i] = PairOf(segs[Len(segs)].bytes)

\* C17 as amended: on G ++ F where every candidate started in G ends inside
\* G, and every read delivers the bytes it asks for, only the valid frames
\* are returned, in order; F is not returned before its bytes are reached;
\* and once F's sync marker is consumed, the call that consumed it is still
\* reading F or has returned F with the stream exhausted.
C17_Relock ==
    (EndsWithFrame /\ CandidatesEndInG /\ ~shortRead) =>
        /\ Len(returned) <= Len(FramePairsOf(segs))
        /\ returned = SubSeq(FramePairsOf(segs), 1, Len(returned))
        /\ pos <= LenBeforeLast => Len(returned) < Len(FramePairsOf(segs))
        /\ pos > LenBeforeLast =>
              \/ pc \in {"len", "body"}
              \/ /\ pos = Len(stream)
                 /\ returned = FramePairsOf(segs)
                 /\ returned[Len(returned)] = PairOf(segs[Len(segs)].bytes)

\* C17's case: a false candidate (a bad length, or a whole frame with a wrong
\* checksum) has been dropped and the frame behind it returned.
C17_Witness ==
    /\ EndsWithFrame
    /\ ~shortRead
    /\ segs[1].kind \in {"badlen", "badcrc"}
    /\ pc = "loop"
    /\ pos = Len(stream)
    /\ f = PairOf(segs[Len(segs)].bytes)
    /\ noneReturned

\* every segment of the stream is a complete valid frame
AllFrames == \A i \in 1..Len(segs) : segs[i].kind = "frame"

\* the position of the frame boundary after the first n segments
BoundaryAfter(n) == Len(Flatten(SubSeq(segs, 1, n)))

\* C19: on a stream of complete valid frames F1..Fn, while every read delivers
\* the bytes it asks for, no call returns None, the frames returned so far are
\* F1..Fk in order, and between calls the position is the frame boundary
\* after Fk.
C19_Aligned ==
    (AllFrames /\ ~shortRead) =>
        /\ ~noneReturned
        /\ Len(returned) <= Len(segs)
        /\ returned = SubSeq(FramePairsOf(segs), 1, Len(returned))
        /\ pc \in {"loop", "hunt"} => pos = BoundaryAfter(Len(returned))
        /\ pc = "loop" => f = returned[Len(returned)]

\* C19's case: two frames have been returned by two calls, the first with the
\* sync marker in its payload and as its checksum byte.
C19_Witness ==
    /\ AllFrames
    /\ ~shortRead
    /\ Len(segs) >= 2
    /\ pc = "loop"
    /\ Len(returned) = 2
    /\ segs[1].bytes[Len(segs[1].bytes)] = CRSF_SYNC
    /\ segs[1].bytes[4] = CRSF_SYNC

(***************************************************************************)
(* Properties of the report                                                *)
(***************************************************************************)

\* C9: a line is printed only for a decoded frame read at least 50 ms after
\* the previous print (after start-up for the first), and then last_print
\* is the time of that reading; last_print changes in no other step.
C9_RateLimit ==
    /\ [](didPrint => (decoded /\ gap >= 50 /\ last_print = ticks_ms(clock)))
    /\ [][last_print' # last_print =>
             (pc = "loop" /\ didPrint' /\ last_print' = ticks_ms(clock'))]_vars

\* C9's case: a second line has been printed.
C9_Witness == didPrint /\ nprinted >= 2

\* the line the transmitter's Channel Set behind the frame v should give
ExpectedLine(v) ==
    LET C == CHOOSE X \in ChannelSets : Pack16(X) = v[2]
    IN  [unit |-> [i \in 1..4 |-> Round3(ticks_to_unit(C[i]))],
         raw  |-> [i \in 1..8 |-> C[i]]]

\* C10 as stated: a decoded frame read 50 ms or more after the previous
\* print is printed in that iteration, with its own values.
C10_AsStated ==
    (pc # "loop" /\ decoded /\ gap >= 50) =>
        (didPrint /\ printed = <<ExpectedLine(f)>>)

\* C10 as amended: a decoded frame read more than 50 ms (and less than 2^29
\* ms, half the tick counter's period) after the previous print is printed in
\* that iteration; and whatever is printed is the line of the frame decoded
\* in that iteration.
C10_Responsive ==
    /\ (pc # "loop" /\ decoded /\ gap > 50 /\ gap < 2 ^ 29) => didPrint
    /\ (pc # "loop" /\ didPrint) => printed = <<ExpectedLine(f)>>

\* C10's case: a frame read across the wrap of the tick counter, 51 ms after
\* the previous print, has been printed, and it is not the first line.
C10_Witness ==
    /\ pc # "loop"
    /\ didPrint
    /\ gap = 51
    /\ nprinted >= 2
    /\ ticks_ms(clock) < ticks_ms(clock - gap)

\* a returned frame that is not channel data: another type, or type 0x16 with
\* a payload that is not 22 bytes long
NotChannelData(v) ==
    v # None /\ (v[1] # TYPE_RC_CHANNELS \/ Len(v[2]) # ChannelPayloadLen)

\* the stream is a valid frame that is not channel data and then one more
\* segment
IgnoredThenNext ==
    /\ Len(segs) = 2
    /\ segs[1].kind = "frame"
    /\ NotChannelData(PairOf(segs[1].bytes))

\* C12: a CRC-valid frame that is not channel data is returned by read_frame;
\* the loop iteration that gets it unpacks nothing, prints nothing, leaves
\* ch_ticks and last_print as they were and calls read_frame again at the
\* same position; and a channel-data frame that follows is returned and
\* unpacked.
C12_IgnoredFrame ==
    /\ []((IgnoredThenNext /\ ~shortRead) =>
            /\ returned # <<>> => returned[1] = PairOf(segs[1].bytes)
            /\ (pc = "loop" /\ pos = Len(segs[1].bytes)) =>
                  f = PairOf(segs[1].bytes)
            /\ (pc = "hunt" /\ pos = Len(segs[1].bytes)) =>
                  (~decoded /\ ~didPrint /\ ch_ticks = <<>> /\ nprinted = 0)
            /\ (segs[2].kind = "frame" /\ pc = "hunt" /\ pos = Len(stream)) =>
                  /\ returned = <<PairOf(segs[1].bytes), PairOf(segs[2].bytes)>>
                  /\ IsChannelFrame(f) =>
                        (decoded /\ Pack16(ch_ticks) = SubSeq(segs[2].bytes, 4, 25)))
    /\ [][(pc = "loop" /\ NotChannelData(f)) =>
             /\ ~decoded'
             /\ ~didPrint'
             /\ UNCHANGED <<ch_ticks, last_print, last_clock, printed, nprinted>>
             /\ pc' = "hunt"
             /\ pos' = pos]_vars

\* C12's case: a frame of type 0x16 with a payload of 60 bytes was returned
\* and ignored, and the channel-data frame behind it has been unpacked.
C12_Witness ==
    /\ IgnoredThenNext
    /\ ~shortRead
    /\ segs[1].bytes[3] = TYPE_RC_CHANNELS
    /\ pc = "hunt"
    /\ pos = Len(stream)
    /\ Len(returned) = 2
    /\ decoded
    /\ ch_ticks = Ramp

(***************************************************************************)
(* Properties of the throttle ramp script                                  *)
(***************************************************************************)

\* the percent of the last set_percent call
LastPercent == cmds[Len(cmds)].percent

\* the script is inside kill_and_wait's loop, or past it
InKillWait == rpc \in {"wait_poll", "wait_sleep"}

\* C14: a poll of require_safety_stable or hold_with_safety that reads
\* not-HIGH sends the script to kill_and_wait, and no other step does; from
\* then on the script is in kill_and_wait or at its end, its only throttle
\* command is the set_percent(0) that opens kill_and_wait, and it leaves
\* kill_and_wait only by a poll that reads HIGH.
C14_KillOnBreak ==
    /\ [][(rpc \in {"stable_poll", "hold_poll"} /\ rpc' # rpc) =>
             /\ line # 1 => (tripped' /\ rpc' = "kill")
             /\ line = 1 => (~tripped' /\ rpc' # "kill")]_vars
    /\ [][(tripped' /\ ~tripped) => (rpc \in {"stable_poll", "hold_poll"} /\ line # 1)]_vars
    /\ [][tripped => tripped']_vars
    /\ [](tripped => (rpc = "kill" \/ InKillWait \/ rpc = "done"))
    /\ []((tripped /\ rpc # "kill") => (LastPercent = 0 /\ cmds[Len(cmds)].us = 1000))
    /\ [][(tripped /\ cmds' # cmds) =>
             /\ rpc = "kill"
             /\ cmds' = Append(cmds, [percent |-> 0, us |-> 1000, duty |-> 3276])]_vars
    /\ [][(InKillWait /\ rpc' = "done") => (rpc = "wait_poll" /\ line = 1)]_vars
    /\ [][(rpc = "wait_poll" /\ rpc' # rpc) => (rpc' = "done") = (line = 1)]_vars

\* C14's case: the interlock was read not-HIGH during a hold above 0%, the
\* throttle was cut, the script waited through a poll that still read
\* not-HIGH, and left kill_and_wait once the interlock read HIGH.
C14_Witness ==
    /\ tripped
    /\ rpc = "done"
    /\ waits >= 1
    /\ Len(cmds) >= 4
    /\ cmds[Len(cmds) - 1].percent >= 10
    /\ LastPercent = 0

\* C18: whenever a set_percent call raises the throttle above the last
\* commanded percent, the interlock input is HIGH.
C18_NoRaiseWhileLow ==
    [][(cmds # <<>> /\ cmds' # cmds /\ cmds'[Len(cmds')].percent > LastPercent) =>
          line = 1]_vars

\* the percents of the commands cs
Percents(cs) == [i \in 1..Len(cs) |-> cs[i].percent]

\* the commands of a run whose polls all read HIGH
FullRamp == <<0, 0, 10, 20, 30, 40, 50, 60, 70, 80, 90, 100, 0>>

\* C20: when the script has finished, or waits in kill_and_wait, the last
\* set_percent call was set_percent(0); while no poll has failed, the calls
\* made so far are the first ones of 0, 0, 10, 20, .., 100, 0, all of them at
\* the end of the run; the arming 0% is held 1 s, and every step of the ramp
\* 5 s, before the next call.
C20_RampShape ==
    /\ (rpc = "done" \/ InKillWait) => (cmds # <<>> /\ LastPercent = 0)
    /\ ~tripped =>
          /\ Len(cmds) <= Len(FullRamp)
          /\ Percents(cmds) = SubSeq(FullRamp, 1, Len(cmds))
          /\ rpc = "done" => Percents(cmds) = FullRamp
          /\ Len(cmds) = 2 => held >= 1000
          /\ Len(cmds) >= 3 => held >= 5000
          /\ \A i \in 1..Len(cmds) : cmds[i].us = 1000 + 10 * cmds[i].percent

\* C20's case: a run whose polls all read HIGH has finished.
C20_Witness ==
    /\ rpc = "done"
    /\ ~tripped
    /\ Len(cmds) = 13
    /\ cmds[12].percent = 100
    /\ cmds[12].us = 2000

====
